---- MODULE Spec2Model ----
(***************************************************************************)
(* State-machine model of the market-making agent of im.py                 *)
(* (CMIBot, SSEThread, SmartMarketMakingBot, main).                        *)
(*                                                                         *)
(* Prices, tick counts and mid prices are floats in the program; here they *)
(* are exact fixed-point integers in units of 1/SCALE, so that 0.02*|inv|, *)
(* 0.03*inv, 0.5*offset and the jitter are all representable.              *)
(***************************************************************************)
EXTENDS Integers, Sequences, FiniteSets, TLC

\* ------------------------------------------------------------------ units
SCALE == 100 * 100

\* ----------------------------------------------------------------- bounds
\* the millisecond clock read by send_order stops advancing here
MaxClock == 1
\* number of mid-price observations ingested in one run
MaxMidSteps == 4
\* number of order records the exchange accepts in one run (Live mode)
MaxRemote == 1
\* number of simulated fills in one run
MaxFills == 1

\* ------------------------------------------------------ program constants
MidCapacity == 200
VolWindow == 30

\* values of random.randint(0, 999) used for order identifiers
SimRandVals == {0, 1}

NaN == 0 - 1
None == [none |-> TRUE]

\* ------------------------------------------------------------ small helpers
Abs(x) == IF x < 0 THEN 0 - x ELSE x
Max(a, b) == IF a >= b THEN a ELSE b
Last(s) == s[Len(s)]
Range(s) == {s[i] : i \in 1..Len(s)}

\* seq[-window:]
Tail_(s, window) ==
    IF Len(s) <= window THEN s ELSE SubSeq(s, Len(s) - window + 1, Len(s))

\* [o for o in lst if pred]  (list comprehension keeps order)
RECURSIVE FilterOutId(_, _)
FilterOutId(lst, id) ==
    IF lst = <<>> THEN <<>>
    ELSE IF Head(lst).id = id THEN FilterOutId(Tail(lst), id)
         ELSE <<Head(lst)>> \o FilterOutId(Tail(lst), id)

\* Python round(): round half to even, on a fixed-point value x in units of unit
RoundHalfEven(x, unit) ==
    LET q == x \div unit
        r == x % unit
    IN  IF 2 * r < unit THEN q
        ELSE IF 2 * r > unit THEN q + 1
        ELSE IF q % 2 = 0 THEN q ELSE q + 1

\* ------------------------------------------------------ volatility estimate
\* indices i of arr with arr[i] > 0 and arr[i+1] > 0: the log returns formed
LogReturnIdx(arr) == {i \in 1..(Len(arr) - 1) : arr[i] > 0 /\ arr[i + 1] > 0}

\* values of vol * vol_coeff (in 1/SCALE ticks) that a sample standard
\* deviation of two or more log returns is drawn from; the float result of
\* pd.Series(logs).std() is not computed, it is one of these
VolTickVals == {0, 4000}

\* number of positive samples of arr
RECURSIVE PositiveCount(_)
PositiveCount(arr) ==
    IF arr = <<>> THEN 0
    ELSE (IF Head(arr) > 0 THEN 1 ELSE 0) + PositiveCount(Tail(arr))

\* variant: the estimate is taken from the window without looking for the
\* log returns that can be formed
VolEstTicks_NoReturnCheck(hist, window) ==
    LET arr == Tail_(hist, window)
    IN  IF Len(arr) < 2 THEN {0} ELSE VolTickVals \ {0}

\* _get_vol_est(product, window) * vol_coeff: the set of possible results.
\* Fewer than 2 samples or no log return: 0.  Exactly one log return: the
\* sample standard deviation (ddof = 1) of a single value is NaN.
VolEstTicks(hist, window) ==
    LET arr == Tail_(hist, window)
    IN  IF Len(arr) < 2 THEN {0}
        ELSE IF LogReturnIdx(arr) = {} THEN {0}
        ELSE IF Cardinality(LogReturnIdx(arr)) = 1 THEN {NaN}
        ELSE VolTickVals

\* _get_sim_mid: last element of the history, or None
GetSimMid(hist) == IF hist = <<>> THEN None ELSE [none |-> FALSE, mid |-> Last(hist)]

\* variant: append without eviction
AppendMid_NoEvict(hist, mid) == Append(hist, mid)

\* recent_mid[p].append(mid); if len > 200: pop(0)
AppendMid(hist, mid) ==
    LET h == Append(hist, mid)
    IN  IF Len(h) > MidCapacity THEN Tail(h) ELSE h

\* ------------------------------------------------------------ quote maths
\* _price_to_tick: round(price / tick) * tick
PriceToTick(price, tick) == RoundHalfEven(price, tick) * tick

\* variant: the whole spread, not halved
ComputeHalfSpreadTicks_NotHalved(c, volT, inv) ==
    IF volT = NaN THEN NaN
    ELSE Max(c.min_tick_width, SCALE) + volT + ((2 * SCALE) \div 100) * Abs(inv)

\* _compute_half_spread_ticks, given vol * vol_coeff (volT, maybe NaN):
\* (max(min_tick_width, 1.0) + vol*vol_coeff + 0.02*|inv|) / 2
ComputeHalfSpreadTicks(c, volT, inv) ==
    IF volT = NaN THEN NaN
    ELSE (Max(c.min_tick_width, SCALE) + volT + ((2 * SCALE) \div 100) * Abs(inv)) \div 2

\* skew = skew_coeff * inv * tick, skew_coeff = 0.03
Skew(inv, tick) == (3 * inv * tick) \div 100

\* variant: the size is never reduced
LevelQty_NeverReduced(c, inv) == c.base_volume

\* level_qty: reduced when |inv| > inventory_limit
LevelQty(c, inv) ==
    IF Abs(inv) > c.inventory_limit
    THEN Max(1, (c.base_volume * 2) \div 10)
    ELSE c.base_volume

\* aggressive = abs(inv) > inventory_limit * 0.8
Aggressive(c, inv) == 10 * Abs(inv) > 8 * c.inventory_limit

\* values of random.random(), in hundredths
RandomUnit == {0, 25, 50, 75}

\* variant: the random term is not scaled by the jitter setting
Jitter_Unscaled(c, r, tick) == ((r - 50) * 4 * tick) \div 100

\* j = (random.random() - 0.5) * jitter * tick
Jitter(c, r, tick) == ((r - 50) * c.jitter * tick) \div (100 * SCALE)

\* offset = half_spread_price * (1 + 0.5*(lvl-1))
LevelOffset(half_spread_price, lvl) == (half_spread_price * (lvl + 1)) \div 2

\* variant: the aggressive adjustment is twice the offset instead of half of it
LevelPrices_OverAdjusted(c, center, half_spread_price, lvl, r, aggressive, tick) ==
    LET offset == LevelOffset(half_spread_price, lvl)
        j      == Jitter(c, r, tick)
        adj    == IF aggressive THEN 2 * offset ELSE 0
    IN  <<PriceToTick(center - offset + j + adj, tick),
          PriceToTick(center + offset + j - adj, tick)>>

\* one level: the pair (buy_px, sell_px) after jitter, the aggressive
\* adjustment and rounding to the tick
LevelPrices(c, center, half_spread_price, lvl, r, aggressive, tick) ==
    LET offset == LevelOffset(half_spread_price, lvl)
        j      == Jitter(c, r, tick)
        adj    == IF aggressive THEN offset \div 2 ELSE 0
    IN  <<PriceToTick(center - offset + j + adj, tick),
          PriceToTick(center + offset + j - adj, tick)>>

\* variant: a gate that lets a locked pair through
GateOpen_AllowsLocked(pair) == pair[1] <= pair[2]

\* the gate of the submit loop: if buy_px < sell_px
GateOpen(pair) == pair[1] < pair[2]

\* variant: an order priced exactly at the mid is not marketable
Marketable_Strict(side, price, mid) ==
    (side = "BUY" /\ price > mid) \/ (side = "SELL" /\ price < mid)

\* marketable against the last simulated mid
Marketable(side, price, mid) ==
    (side = "BUY" /\ price >= mid) \/ (side = "SELL" /\ price <= mid)

\* --------------------------------------------------------- fair-value model
\* flight_data is kept as the two counts the properties compute from it
EmptyFlightData == [crossed |-> 0, air |-> 0]

\* theos.get(product, 100.0)
Theo(fd, p) ==
    IF p = "EQUATOR" THEN 100 * SCALE + (SCALE \div 2) * fd.crossed
    ELSE IF p = "FLIGHTS" THEN 200 * SCALE + (SCALE \div 5) * fd.air
    ELSE 100 * SCALE

\* counts a poll of the telemetry can produce
FlightCounts == {0, 2}

\* theo * normalvariate(0, 0.002): displacement of a synthetic mid from theo
MidNoise == {0 - SCALE, SCALE}

\* ------------------------------------------------------ order-book normalizer
\* a raw level: the price key (keyOk: float(price_s) succeeds), the fallback
\* "price" field (0 when absent), and the two volumes (volOk: int() succeeds)
Level(k, mv, uv) == [keyOk |-> TRUE, key |-> k, alt |-> 0, volOk |-> TRUE, mv |-> mv, uv |-> uv]

\* transform(side) raises when a volume conversion raises inside its loop
TransformRaises(side) == \E i \in 1..Len(side) : ~side[i].volOk

\* transform(side): one normalized level per raw level, in the map's order
Transform(side) ==
    [i \in 1..Len(side) |->
        [price |-> IF side[i].keyOk THEN side[i].key ELSE side[i].alt,
         volume |-> side[i].mv, own_volume |-> side[i].uv]]

\* sorted(levels, key = sign * price): stable insertion
RECURSIVE InsertByKey(_, _, _)
InsertByKey(sorted, x, sign) ==
    IF sorted = <<>> THEN <<x>>
    ELSE IF sign * Head(sorted).price <= sign * x.price
         THEN <<Head(sorted)>> \o InsertByKey(Tail(sorted), x, sign)
         ELSE <<x>> \o sorted

\* variant: the levels are left in the order of the raw map
SortedByKey_RawOrder(levels, sign) == levels

RECURSIVE SortedByKey(_, _)
SortedByKey(levels, sign) ==
    IF levels = <<>> THEN <<>>
    ELSE InsertByKey(SortedByKey(SubSeq(levels, 1, Len(levels) - 1), sign),
                     Last(levels), sign)

\* raw order-book messages the exchange streams
RawBooks ==
    { [product |-> p, buyOrders |-> b, sellOrders |-> a] :
        p \in {"EQUATOR", "FLIGHTS"},
        b \in { <<>>, <<Level(98 * SCALE, 5, 0), Level(99 * SCALE, 3, 0)>> },
        a \in { <<Level(103 * SCALE, 4, 0), Level(102 * SCALE, 1, 0)>> } }

\* ------------------------------------------------------------------- state
VARIABLES
    tob,    \* TestOrderBot: constructor position, order_count, the stream threads inside on_orderbook, orders sent
    ltOut,    \* the last on_orderbook call of LiquidityTakingBot: its inputs, its outcome
    cfg,                \* the dataclass fields of SmartMarketMakingBot
    mainPc,             \* main thread: "new", "constructed", "running", "stopping", "cancelled", "exited"
    simulate_mode,
    auth_token,
    products,
    tasks,              \* background threads started
    inventory,
    open_orders_local,
    recent_mid,
    flight_data,
    lock,               \* holder of _lock: "none" or "mm"
    mmPc,               \* _market_make_loop: "off", "wait", "product", "cancel", "levels", "submit"
    mmProd,             \* index into products of the product being quoted
    mmCalc,             \* locals of the pass: half_spread_price, center, level_qty, aggressive
    mmLevels,           \* levels: sequence of (buy_px, sell_px)
    mmIdx,              \* position in the submit loop
    mmSide,             \* next order of the pair: "BUY" or "SELL"
    simIdx,             \* _simulate_market_updates: index of the next product
    now,                \* int(time.time() * 1000)
    remoteSeq,          \* order records issued by the exchange so far
    exchange_orders,    \* identifiers open at the exchange for this user
    lastSend,           \* the last send_order call: mode, returned order, fill
    lastCancel,         \* the last cancel_all_orders call, if no send_order followed it:
                        \* mode, cnt removed, and cnt of the call just before it (prev)
    passRested,         \* per product, how many orders the running (or last completed)
                        \* pass left resting
    midSteps,           \* mid-price observations ingested so far
    fills,              \* simulated fills so far
    sse,                \* SSEThread.run per stream: pc "off", "connect", "stream", "sleep",
                        \* and the length of its last sleep
    lastHandled,        \* the last call of a stream handler: which one, the kind of
                        \* payload, how it ended, and the snapshot it built
    lastPoll,           \* the last poll of _pull_flight_data: its outcome, and whether
                        \* it generated synthetic records
    volOut              \* the last direct call of _get_vol_est: window contents, result

vars == <<cfg, mainPc, simulate_mode, auth_token, products,
          tasks, inventory, open_orders_local, recent_mid, flight_data, lock,
          mmPc, mmProd, mmCalc, mmLevels, mmIdx, mmSide, simIdx, now, remoteSeq,
          exchange_orders, lastSend, lastCancel, passRested, midSteps, fills,
          sse, lastHandled, lastPoll,
          volOut,
          ltOut,
          tob>>

mainVars   == <<mainPc>>
ledgerVars == <<inventory, open_orders_local>>
mmVars     == <<mmPc, mmProd, mmCalc, mmLevels, mmIdx, mmSide, passRested>>
exchVars   == <<remoteSeq, exchange_orders>>
ctorVars   == <<cfg, auth_token, products, tasks>>
streamVars == <<sse, lastHandled, lastPoll>>
auxVars    == <<volOut, ltOut, tob>>

\* the stream threads followed: one order-book stream and the trade stream
Streams == {"orderbook", "trade"}

\* SSEThread(reconnect_delay = 2.0)
ReconnectDelay == 2

NoHandled == [handler |-> "none"]
NoPoll == [outcome |-> "none", synthesized |-> FALSE]
NoVol == [called |-> FALSE]
NoTake == [called |-> FALSE]

\* the per-product stream threads of a TestOrderBot
TobThreads == {"EQUATOR", "FLIGHTS"}

\* TestOrderBot while CMIBot.__post_init__ runs: the stream threads are
\* started, order_count is not set yet
NoTob == [ctor |-> "starting", order_count |-> 0,
          pc |-> [t \in TobThreads |-> "idle"], tmp |-> [t \in TobThreads |-> 0],
          bids |-> [t \in TobThreads |-> FALSE], raised |-> FALSE, sent |-> 0]
SseOff == [s \in Streams |-> [pc |-> "off", slept |-> 0]]

\* configurations the bot is constructed with (ticks in 1/SCALE)
DefaultCfg ==
    [min_tick_width |-> 2 * SCALE, base_volume |-> 10, inventory_limit |-> 100,
     levels |-> 2, jitter |-> SCALE \div 5]

Configs ==
    { [DefaultCfg EXCEPT !.levels = 1, !.jitter = 0],
      [DefaultCfg EXCEPT !.min_tick_width = SCALE, !.inventory_limit = 10, !.jitter = 0] }

NoCalc == [theo |-> 0, inv |-> 0, half_spread_price |-> 0, center |-> 0, level_qty |-> 0,
           aggressive |-> FALSE]
NoSend == [via |-> "none"]
NoCancel == [via |-> "none", cnt |-> 0, prev |-> [via |-> "none", cnt |-> 0]]

ProductSet == Range(products)
Alive == mainPc \notin {"new", "exited"}
TickSize(p) == SCALE

Init ==
    /\ cfg \in Configs
    /\ mainPc = "new"
    /\ simulate_mode = FALSE
    /\ auth_token = None
    /\ products = <<>>
    /\ tasks = {}
    /\ inventory = <<>>
    /\ open_orders_local = <<>>
    /\ recent_mid = <<>>
    /\ flight_data = EmptyFlightData
    /\ lock = "none"
    /\ mmPc = "off"
    /\ mmProd = 0
    /\ mmCalc = NoCalc
    /\ mmLevels = <<>>
    /\ mmIdx = 0
    /\ mmSide = "BUY"
    /\ simIdx = 1
    /\ now = 0
    /\ remoteSeq = 0
    /\ exchange_orders = {}
    /\ lastSend = NoSend
    /\ lastCancel = NoCancel
    /\ passRested = <<>>
    /\ midSteps = 0
    /\ fills = 0
    /\ sse = SseOff
    /\ lastHandled = NoHandled
    /\ lastPoll = NoPoll
    /\ volOut = NoVol
    /\ ltOut = NoTake
    /\ tob = NoTob

\* ------------------------------------------------------------ construction
DefaultProducts == <<"EQUATOR", "FLIGHTS">>

\* symbol lists the product-discovery call returns when it succeeds: the two
\* products theos knows, or a list with a product theos has no entry for
DiscoveredLists == {<<"EQUATOR", "FLIGHTS">>, <<"EQUATOR", "CARGO">>}

\* variant: a failed authentication leaves the mode as it was
Construct_NoFallback(authOk, discoveryOk, sse_available) ==
    /\ mainPc = "new"
    /\ simulate_mode' = simulate_mode
    /\ auth_token' = IF ~simulate_mode /\ authOk
                     THEN [none |-> FALSE, token |-> "bearer"] ELSE None
    /\ products' = DefaultProducts
    /\ inventory' = [p \in Range(DefaultProducts) |-> 0]
    /\ open_orders_local' = [p \in Range(DefaultProducts) |-> <<>>]
    /\ recent_mid' = [p \in Range(DefaultProducts) |-> <<>>]
    /\ passRested' = [p \in Range(DefaultProducts) |-> 0]
    /\ tasks' = {"flight", "mm", "simgen"}
    /\ mmPc' = "wait"
    /\ mainPc' = "constructed"
    /\ UNCHANGED <<streamVars, auxVars, cfg, flight_data, lock, mmProd, mmCalc, mmLevels, mmIdx, mmSide,
                   simIdx, now, exchVars, fills, lastSend, lastCancel, midSteps>>

\* CMIBot.__post_init__ followed by SmartMarketMakingBot.__post_init__:
\* authenticate (fall back to simulate mode on failure), discover products,
\* zero the ledger, start the telemetry thread, the stream threads or the
\* synthetic-market thread, and the market-making thread
Construct(authOk, discoveryOk, sse_available) ==
    /\ mainPc = "new"
    /\ LET sim   == simulate_mode \/ ~authOk
           prods == IF sim \/ ~discoveryOk THEN {DefaultProducts} ELSE DiscoveredLists
       IN  /\ simulate_mode' = sim
           /\ auth_token' = IF ~simulate_mode /\ authOk
                            THEN [none |-> FALSE, token |-> "bearer"] ELSE None
           /\ \E ps \in prods :
                /\ products' = ps
                /\ inventory' = [p \in Range(ps) |-> 0]
                /\ open_orders_local' = [p \in Range(ps) |-> <<>>]
                /\ recent_mid' = [p \in Range(ps) |-> <<>>]
                /\ passRested' = [p \in Range(ps) |-> 0]
           /\ tasks' = {"flight", "mm"} \cup
                       (IF ~sim /\ sse_available THEN {"sse", "trade"} ELSE {"simgen"})
           /\ sse' = IF ~sim /\ sse_available
                     THEN [s \in Streams |-> [pc |-> "connect", slept |-> 0]] ELSE sse
    /\ mmPc' = "wait"
    /\ mainPc' = "constructed"
    /\ UNCHANGED <<lastHandled, lastPoll, auxVars, cfg, flight_data, lock, mmProd, mmCalc, mmLevels, mmIdx, mmSide,
                   simIdx, now, exchVars, fills, lastSend, lastCancel, midSteps>>

\* ---------------------------------------------------------- order gateway
OrderCount == LET RECURSIVE Sum(_)
                  Sum(S) == IF S = {} THEN 0
                            ELSE LET p == CHOOSE q \in S : TRUE
                                 IN  Len(open_orders_local[p]) + Sum(S \ {p})
              IN  Sum(DOMAIN open_orders_local)

\* send_order in simulate mode: build the identifier from the clock and a
\* random number, append the order OPEN, then fill it at once if it is
\* marketable against the last mid (_simulate_fill removes by identifier and
\* moves the inventory by the whole volume)
SendOrderSim(product, price, side, volume, ms, rnd) ==
    LET oid    == [src |-> "sim", ms |-> ms, r |-> rnd]
        order  == [id |-> oid, product |-> product, side |-> side, price |-> price,
                   volume |-> volume, status |-> "OPEN"]
        booked == [open_orders_local EXCEPT ![product] = Append(@, order)]
        mid    == GetSimMid(recent_mid[product])
        fill   == ~mid.none /\ Marketable(side, price, mid.mid)
    IN  /\ open_orders_local' =
              IF fill THEN [booked EXCEPT ![product] = FilterOutId(@, oid)] ELSE booked
        /\ inventory' =
              IF fill
              THEN [inventory EXCEPT ![product] = IF side = "BUY" THEN @ + volume ELSE @ - volume]
              ELSE inventory
        /\ fill => fills < MaxFills
        /\ fills' = IF fill THEN fills + 1 ELSE fills
        /\ lastSend' = [via |-> "sim", order |-> order, mid |-> mid, filled |-> fill,
                        invBefore |-> inventory[product]]
        /\ passRested' = IF fill THEN passRested ELSE [passRested EXCEPT ![product] = @ + 1]
        /\ now' = ms
        /\ UNCHANGED exchVars

\* variant: the order is appended to the store whatever the exchange answered
SendOrderLive_RecordsAlways(product, price, side, volume, outcome) ==
    LET oid  == [src |-> "exch", ms |-> 0, r |-> remoteSeq]
        data == [id |-> oid, product |-> product, side |-> side, price |-> price,
                 volume |-> volume, status |-> "OPEN"]
    IN  /\ open_orders_local' = [open_orders_local EXCEPT ![product] = Append(@, data)]
        /\ IF outcome = "ok"
           THEN /\ remoteSeq < MaxRemote
                /\ remoteSeq' = remoteSeq + 1
                /\ exchange_orders' = exchange_orders \cup {oid}
                /\ lastSend' = [via |-> "live", order |-> data, mid |-> None, filled |-> FALSE,
                                invBefore |-> inventory[product]]
           ELSE /\ UNCHANGED exchVars
                /\ lastSend' = [via |-> "live", order |-> None, mid |-> None, filled |-> FALSE,
                                invBefore |-> inventory[product]]
        /\ UNCHANGED <<inventory, passRested, now, fills>>

\* send_order, live branch: POST /api/order; a 200 answer is appended to the
\* store under the lock and returned; any other status, and any exception, is
\* printed and None is returned
SendOrderLive(product, price, side, volume, outcome) ==
    LET oid  == [src |-> "exch", ms |-> 0, r |-> remoteSeq]
        data == [id |-> oid, product |-> product, side |-> side, price |-> price,
                 volume |-> volume, status |-> "OPEN"]
    IN  /\ IF outcome = "ok"
           THEN /\ remoteSeq < MaxRemote
                /\ remoteSeq' = remoteSeq + 1
                /\ exchange_orders' = exchange_orders \cup {oid}
                /\ open_orders_local' = [open_orders_local EXCEPT ![product] = Append(@, data)]
                /\ lastSend' = [via |-> "live", order |-> data, mid |-> None, filled |-> FALSE,
                                invBefore |-> inventory[product]]
           ELSE /\ UNCHANGED <<exchVars, open_orders_local>>
                /\ lastSend' = [via |-> "live", order |-> None, mid |-> None, filled |-> FALSE,
                                invBefore |-> inventory[product]]
        /\ UNCHANGED <<inventory, passRested, now, fills>>

\* the clock value read for the identifier is any value from the last one read on
SendOrder(product, price, side, volume) ==
    IF simulate_mode
    THEN \E ms \in now..MaxClock, rnd \in SimRandVals :
            SendOrderSim(product, price, side, volume, ms, rnd)
    ELSE \E outcome \in {"ok", "rejected", "error"} :
            SendOrderLive(product, price, side, volume, outcome)

\* variant: the simulate branch empties the store of the first product only
CancelAllOrders_FirstProductOnly ==
    IF simulate_mode
    THEN /\ open_orders_local' = [open_orders_local EXCEPT ![products[1]] = <<>>]
         /\ lastCancel' = [via |-> "sim", cnt |-> Len(open_orders_local[products[1]]),
                            prev |-> [via |-> lastCancel.via, cnt |-> lastCancel.cnt]]
         /\ UNCHANGED exchVars
    ELSE /\ UNCHANGED <<exchVars, open_orders_local>>
         /\ lastCancel' = [via |-> "live", cnt |-> 0,
                            prev |-> [via |-> lastCancel.via, cnt |-> lastCancel.cnt]]

\* variant: the live branch also drops from the store the orders whose
\* cancel the exchange confirmed
CancelAllOrders_LiveDropsCancelled ==
    IF simulate_mode
    THEN /\ open_orders_local' = [k \in ProductSet |-> <<>>]
         /\ lastCancel' = [via |-> "sim", cnt |-> OrderCount,
                            prev |-> [via |-> lastCancel.via, cnt |-> lastCancel.cnt]]
         /\ UNCHANGED exchVars
    ELSE /\ \E listed \in BOOLEAN :
            \E done \in SUBSET exchange_orders :
               /\ (~listed => done = {})
               /\ exchange_orders' = exchange_orders \ done
               /\ open_orders_local' =
                     [k \in DOMAIN open_orders_local |->
                        SelectSeq(open_orders_local[k], LAMBDA o : o.id \notin done)]
               /\ lastCancel' = [via |-> "live", cnt |-> Cardinality(done),
                                  prev |-> [via |-> lastCancel.via, cnt |-> lastCancel.cnt]]
         /\ UNCHANGED remoteSeq

\* cancel_all_orders: in simulate mode empty the local store under the lock;
\* otherwise list the user's orders at the exchange and delete each one,
\* tolerating failures (the local store is not touched)
CancelAllOrders ==
    IF simulate_mode
    THEN /\ open_orders_local' = [k \in ProductSet |-> <<>>]
         /\ lastCancel' = [via |-> "sim", cnt |-> OrderCount,
                            prev |-> [via |-> lastCancel.via, cnt |-> lastCancel.cnt]]
         /\ UNCHANGED exchVars
    ELSE /\ \E listed \in BOOLEAN :
            \E done \in SUBSET exchange_orders :
               /\ (~listed => done = {})
               /\ exchange_orders' = exchange_orders \ done
               /\ lastCancel' = [via |-> "live", cnt |-> Cardinality(done),
                                  prev |-> [via |-> lastCancel.via, cnt |-> lastCancel.cnt]]
         /\ UNCHANGED <<remoteSeq, open_orders_local>>

\* ------------------------------------------------------- the strategy loop
\* variant: a pass is started whether or not the previous one has finished
MMBeginPass_Overlapping ==
    /\ Alive /\ "mm" \in tasks
    /\ lock' = "mm"
    /\ mmPc' = "product"
    /\ mmProd' = 1
    /\ passRested' = [p \in ProductSet |-> 0]
    /\ UNCHANGED <<streamVars, mainVars, ctorVars, auxVars, simulate_mode, ledgerVars, recent_mid, flight_data,
                   mmCalc, mmLevels, mmIdx, mmSide, simIdx, now, exchVars, fills, lastSend,
                   lastCancel, midSteps>>

\* while True: ... with self._lock:  (start of a pass)
MMBeginPass ==
    /\ Alive /\ "mm" \in tasks
    /\ mmPc = "wait"
    /\ lock = "none"
    /\ lock' = "mm"
    /\ mmPc' = "product"
    /\ mmProd' = 1
    /\ passRested' = [p \in ProductSet |-> 0]
    /\ UNCHANGED <<streamVars, mainVars, ctorVars, auxVars, simulate_mode, ledgerVars, recent_mid, flight_data,
                   mmCalc, mmLevels, mmIdx, mmSide, simIdx, now, exchVars, fills, lastSend,
                   lastCancel, midSteps>>

\* per product: read theo, tick and inventory, compute the half spread, the
\* skew, the center, the quote size and the aggressiveness flag
MMPrepare ==
    /\ Alive
    /\ mmPc = "product"
    /\ LET product == products[mmProd]
           theo    == Theo(flight_data, product)
           tick    == TickSize(product)
           inv     == inventory[product]
       IN  \E volT \in VolEstTicks(recent_mid[product], VolWindow) :
              LET half_ticks == ComputeHalfSpreadTicks(cfg, volT, inv)
              IN  mmCalc' = [theo |-> theo, inv |-> inv,
                             half_spread_price |->
                                 IF half_ticks = NaN THEN NaN ELSE (half_ticks * tick) \div SCALE,
                             center     |-> PriceToTick(theo, tick) - Skew(inv, tick),
                             level_qty  |-> LevelQty(cfg, inv),
                             aggressive |-> Aggressive(cfg, inv)]
    /\ mmPc' = "cancel"
    /\ UNCHANGED <<streamVars, mainVars, ctorVars, auxVars, simulate_mode, ledgerVars, recent_mid, flight_data,
                   lock, mmProd, mmLevels, mmIdx, mmSide, simIdx, now, exchVars, fills,
                   lastSend, lastCancel, passRested, midSteps>>

\* self.cancel_all_orders(), called for every product of the pass
MMCancelAll ==
    /\ Alive
    /\ mmPc = "cancel"
    /\ CancelAllOrders
    /\ mmPc' = "levels"
    /\ UNCHANGED <<streamVars, mainVars, ctorVars, auxVars, simulate_mode, inventory, recent_mid, flight_data,
                   lock, mmProd, mmCalc, mmLevels, mmIdx, mmSide, simIdx, now,
                   lastSend, passRested, midSteps, fills>>

\* the level loop: one (buy_px, sell_px) per level, each with its own jitter
MMComputeLevels ==
    /\ Alive
    /\ mmPc = "levels"
    /\ mmCalc.half_spread_price # NaN
    /\ LET tick == TickSize(products[mmProd])
       IN  \E rs \in [1..cfg.levels -> RandomUnit] :
              mmLevels' = [lvl \in 1..cfg.levels |->
                              LevelPrices(cfg, mmCalc.center, mmCalc.half_spread_price,
                                          lvl, rs[lvl], mmCalc.aggressive, tick)]
    /\ mmIdx' = 1
    /\ mmSide' = "BUY"
    /\ mmPc' = "submit"
    /\ UNCHANGED <<streamVars, mainVars, ctorVars, auxVars, simulate_mode, ledgerVars, recent_mid, flight_data,
                   lock, mmProd, mmCalc, simIdx, now, exchVars, fills, lastSend, lastCancel,
                   passRested, midSteps>>

\* variant: the exception leaves the pass without releasing the lock
MMPassRaises_KeepsLock ==
    /\ Alive
    /\ mmPc = "levels"
    /\ mmCalc.half_spread_price = NaN
    /\ lock' = lock
    /\ mmPc' = "wait"
    /\ mmProd' = 0
    /\ mmCalc' = NoCalc
    /\ mmLevels' = <<>>
    /\ mmIdx' = 0
    /\ mmSide' = "BUY"
    /\ passRested' = [p \in ProductSet |-> 0]
    /\ UNCHANGED <<streamVars, mainVars, ctorVars, auxVars, simulate_mode, ledgerVars, recent_mid, flight_data,
                   simIdx, now, exchVars, fills, lastSend, lastCancel, midSteps>>

\* an exception inside the pass (round() of a NaN price): the with-block
\* releases the lock, the handler prints and sleeps, the loop starts over
MMPassRaises ==
    /\ Alive
    /\ mmPc = "levels"
    /\ mmCalc.half_spread_price = NaN
    /\ lock' = "none"
    /\ mmPc' = "wait"
    /\ mmProd' = 0
    /\ mmCalc' = NoCalc
    /\ mmLevels' = <<>>
    /\ mmIdx' = 0
    /\ mmSide' = "BUY"
    /\ passRested' = [p \in ProductSet |-> 0]
    /\ UNCHANGED <<streamVars, mainVars, ctorVars, auxVars, simulate_mode, ledgerVars, recent_mid, flight_data,
                   simIdx, now, exchVars, fills, lastSend, lastCancel, midSteps>>

\* submit loop, gate closed: the level is skipped
MMSkipLevel ==
    /\ Alive
    /\ mmPc = "submit"
    /\ mmIdx <= Len(mmLevels)
    /\ ~GateOpen(mmLevels[mmIdx])
    /\ mmIdx' = mmIdx + 1
    /\ UNCHANGED <<streamVars, mainVars, ctorVars, auxVars, simulate_mode, ledgerVars, recent_mid, flight_data,
                   lock, mmPc, mmProd, mmCalc, mmLevels, mmSide, simIdx, now, exchVars, fills,
                   lastSend, lastCancel, passRested, midSteps>>

\* submit loop, gate open: send the BUY, then the SELL of the level
MMSend ==
    /\ Alive
    /\ mmPc = "submit"
    /\ mmIdx <= Len(mmLevels)
    /\ GateOpen(mmLevels[mmIdx])
    /\ SendOrder(products[mmProd],
                 IF mmSide = "BUY" THEN mmLevels[mmIdx][1] ELSE mmLevels[mmIdx][2],
                 mmSide, mmCalc.level_qty)
    /\ IF mmSide = "BUY"
       THEN mmSide' = "SELL" /\ mmIdx' = mmIdx
       ELSE mmSide' = "BUY" /\ mmIdx' = mmIdx + 1
    /\ lastCancel' = NoCancel
    /\ UNCHANGED <<streamVars, mainVars, ctorVars, auxVars, simulate_mode, recent_mid, flight_data, lock,
                   mmPc, mmProd, mmCalc, mmLevels, simIdx, midSteps>>

\* all levels done: next product, or leave the with-block and sleep
MMFinishProduct ==
    /\ Alive
    /\ mmPc = "submit"
    /\ mmIdx > Len(mmLevels)
    /\ IF mmProd < Len(products)
       THEN /\ mmProd' = mmProd + 1
            /\ mmPc' = "product"
            /\ UNCHANGED lock
       ELSE /\ mmProd' = 0
            /\ mmPc' = "wait"
            /\ lock' = "none"
    /\ mmCalc' = NoCalc
    /\ mmLevels' = <<>>
    /\ mmIdx' = 0
    /\ mmSide' = "BUY"
    /\ UNCHANGED <<streamVars, mainVars, ctorVars, auxVars, simulate_mode, ledgerVars, recent_mid, flight_data,
                   simIdx, now, exchVars, fills, lastSend, lastCancel, passRested, midSteps>>

\* ------------------------------------------------------- background threads
\* variant: a synthetic mid also takes the resting orders it crosses out of
\* the store
SimMarketUpdate_FillsResting ==
    /\ Alive /\ "simgen" \in tasks
    /\ lock = "none"
    /\ midSteps < MaxMidSteps
    /\ \E d \in MidNoise :
          LET p   == products[simIdx]
              mid == Theo(flight_data, p) + d
          IN  /\ recent_mid' = [recent_mid EXCEPT ![p] = AppendMid(@, mid)]
              /\ open_orders_local' =
                    [open_orders_local EXCEPT ![p] =
                        SelectSeq(@, LAMBDA o : ~Marketable(o.side, o.price, mid))]
    /\ midSteps' = midSteps + 1
    /\ simIdx' = IF simIdx < Len(products) THEN simIdx + 1 ELSE 1
    /\ UNCHANGED <<streamVars, mainVars, ctorVars, auxVars, simulate_mode, inventory, flight_data, lock,
                   mmVars, now, exchVars, fills, lastSend, lastCancel>>

\* variant: the synthetic mid is appended without taking the lock
SimMarketUpdate_Unlocked ==
    /\ Alive /\ "simgen" \in tasks
    /\ LET p == products[simIdx]
       IN  /\ midSteps < MaxMidSteps
           /\ \E d \in MidNoise :
                 recent_mid' = [recent_mid EXCEPT ![p] = AppendMid(@, Theo(flight_data, p) + d)]
           /\ midSteps' = midSteps + 1
    /\ simIdx' = IF simIdx < Len(products) THEN simIdx + 1 ELSE 1
    /\ UNCHANGED <<streamVars, mainVars, ctorVars, auxVars, simulate_mode, ledgerVars, flight_data, lock,
                   mmVars, now, exchVars, fills, lastSend, lastCancel>>

\* _simulate_market_updates: for each product in turn, a synthetic mid around
\* theo is appended under the lock
SimMarketUpdate ==
    /\ Alive /\ "simgen" \in tasks
    /\ lock = "none"
    /\ LET p == products[simIdx]
       IN  /\ midSteps < MaxMidSteps
           /\ \E d \in MidNoise :
                 recent_mid' = [recent_mid EXCEPT ![p] = AppendMid(@, Theo(flight_data, p) + d)]
           /\ midSteps' = midSteps + 1
    /\ simIdx' = IF simIdx < Len(products) THEN simIdx + 1 ELSE 1
    /\ UNCHANGED <<streamVars, mainVars, ctorVars, auxVars, simulate_mode, ledgerVars, flight_data, lock,
                   mmVars, now, exchVars, fills, lastSend, lastCancel>>

\* _pull_flight_data: synthetic records in simulate mode; otherwise a GET whose
\* 200 answer replaces flight_data (any other outcome leaves it as it was)
PullFlightData ==
    /\ Alive /\ "flight" \in tasks
    /\ \/ /\ simulate_mode
          /\ \E c \in FlightCounts, a \in FlightCounts :
                flight_data' = [crossed |-> c, air |-> a]
          /\ lastPoll' = [outcome |-> "simulated", synthesized |-> TRUE]
       \/ /\ ~simulate_mode
          /\ \E c \in FlightCounts, a \in FlightCounts :
                flight_data' = [crossed |-> c, air |-> a]
          /\ lastPoll' = [outcome |-> "fetched", synthesized |-> FALSE]
       \/ /\ ~simulate_mode
          /\ UNCHANGED flight_data
          /\ lastPoll' = [outcome |-> "failed", synthesized |-> FALSE]
    /\ UNCHANGED <<sse, lastHandled, mainVars, ctorVars, auxVars, simulate_mode, ledgerVars, recent_mid, lock,
                   mmVars, simIdx, now, exchVars, fills, lastSend, lastCancel, midSteps>>

\* what a handler call leaves behind: result "delivered" when the hook
\* (on_orderbook, on_trade) was reached, "raised_..." when an exception ended
\* the call before it (in dict(raw), in transform, or at the append)
Handled(handler, kind, result, buy_orders, sell_orders) ==
    [handler |-> handler, kind |-> kind, result |-> result,
     buy_orders |-> buy_orders, sell_orders |-> sell_orders]

\* _on_orderbook_wrapper: normalize the two sides, append the mid of the best
\* bid and ask under the lock (a product that is not a key of recent_mid
\* raises KeyError), call on_orderbook (a no-op here); any exception is caught
\* and printed
OnOrderbook(raw) ==
    /\ Alive /\ "sse" \in tasks
    /\ IF TransformRaises(raw.buyOrders) \/ TransformRaises(raw.sellOrders)
       THEN /\ lastHandled' = Handled("orderbook", "dict", "raised_transform", <<>>, <<>>)
            /\ UNCHANGED <<recent_mid, midSteps>>
       ELSE LET buy_orders  == SortedByKey(Transform(raw.buyOrders), 0 - 1)
                sell_orders == SortedByKey(Transform(raw.sellOrders), 1)
            IN  IF buy_orders # <<>> /\ sell_orders # <<>>
                    THEN IF raw.product \in DOMAIN recent_mid
                         THEN /\ lock = "none"
                              /\ midSteps < MaxMidSteps
                              /\ recent_mid' = [recent_mid EXCEPT ![raw.product] =
                                    AppendMid(@, (buy_orders[1].price + sell_orders[1].price) \div 2)]
                              /\ midSteps' = midSteps + 1
                              /\ lastHandled' = Handled("orderbook", "dict", "delivered",
                                                        buy_orders, sell_orders)
                         ELSE /\ lastHandled' = Handled("orderbook", "dict", "raised_append", <<>>, <<>>)
                              /\ UNCHANGED <<recent_mid, midSteps>>
                    ELSE /\ lastHandled' = Handled("orderbook", "dict", "delivered",
                                                   buy_orders, sell_orders)
                         /\ UNCHANGED <<recent_mid, midSteps>>
    /\ UNCHANGED <<sse, lastPoll, mainVars, ctorVars, auxVars, simulate_mode, ledgerVars, flight_data, lock,
                   mmVars, simIdx, now, exchVars, fills, lastSend, lastCancel>>

\* variant: a trade event is applied to the inventory as a fill of one unit
OnTrade_AppliesFill(kind) ==
    /\ Alive /\ "trade" \in tasks
    /\ inventory[products[1]] < MaxFills
    /\ inventory' = [inventory EXCEPT ![products[1]] = @ + 1]
    /\ lastHandled' = Handled("trade", kind, "delivered", <<>>, <<>>)
    /\ UNCHANGED <<sse, lastPoll, mainVars, ctorVars, auxVars, simulate_mode, open_orders_local, recent_mid,
                   flight_data, lock, mmVars, simIdx, now, exchVars, fills, lastSend,
                   lastCancel, midSteps>>

\* SmartMarketMakingBot.on_trade: print the payload, whatever it is
OnTrade(kind) ==
    /\ Alive /\ "trade" \in tasks
    /\ lastHandled' = Handled("trade", kind, "delivered", <<>>, <<>>)
    /\ UNCHANGED <<sse, lastPoll, mainVars, ctorVars, auxVars, simulate_mode, ledgerVars, recent_mid,
                   flight_data, lock, mmVars, simIdx, now, exchVars, fills, lastSend,
                   lastCancel, midSteps>>

\* ---------------------------------------------------------- SSEThread.run
\* messages = SSEClient(url, headers): the subscription is set up, or raises
\* (the handler of the loop prints and sleeps reconnect_delay)
SSEConnect(s, ok) ==
    /\ Alive /\ "sse" \in tasks
    /\ sse[s].pc = "connect"
    /\ sse' = [sse EXCEPT ![s] = IF ok THEN [pc |-> "stream", slept |-> @.slept]
                                       ELSE [pc |-> "sleep", slept |-> ReconnectDelay]]
    /\ UNCHANGED <<lastHandled, lastPoll, mainVars, ctorVars, auxVars, simulate_mode, ledgerVars,
                   recent_mid, flight_data, lock, mmVars, simIdx, now, exchVars, fills,
                   lastSend, lastCancel, midSteps>>

\* an exception while iterating the stream: print, sleep reconnect_delay
SSERaise(s) ==
    /\ Alive /\ "sse" \in tasks
    /\ sse[s].pc = "stream"
    /\ sse' = [sse EXCEPT ![s] = [pc |-> "sleep", slept |-> ReconnectDelay]]
    /\ UNCHANGED <<lastHandled, lastPoll, mainVars, ctorVars, auxVars, simulate_mode, ledgerVars,
                   recent_mid, flight_data, lock, mmVars, simIdx, now, exchVars, fills,
                   lastSend, lastCancel, midSteps>>

\* the iteration ends without an exception (the server closed the stream):
\* the for loop is left and while True starts over at once
SSEEnd(s) ==
    /\ Alive /\ "sse" \in tasks
    /\ sse[s].pc = "stream"
    /\ sse' = [sse EXCEPT ![s] = [pc |-> "connect", slept |-> @.slept]]
    /\ UNCHANGED <<lastHandled, lastPoll, mainVars, ctorVars, auxVars, simulate_mode, ledgerVars,
                   recent_mid, flight_data, lock, mmVars, simIdx, now, exchVars, fills,
                   lastSend, lastCancel, midSteps>>

\* time.sleep(self.reconnect_delay) returns: back to while True
SSEWake(s) ==
    /\ Alive /\ "sse" \in tasks
    /\ sse[s].pc = "sleep"
    /\ sse' = [sse EXCEPT ![s] = [pc |-> "connect", slept |-> @.slept]]
    /\ UNCHANGED <<lastHandled, lastPoll, mainVars, ctorVars, auxVars, simulate_mode, ledgerVars,
                   recent_mid, flight_data, lock, mmVars, simIdx, now, exchVars, fills,
                   lastSend, lastCancel, midSteps>>

\* a level whose price key float() cannot parse and that has no "price" field
BadKeyLevel(mv, uv) ==
    [keyOk |-> FALSE, key |-> 0, alt |-> 0, volOk |-> TRUE, mv |-> mv, uv |-> uv]

\* a level whose volume int() cannot parse
BadVolumeLevel(k) ==
    [keyOk |-> TRUE, key |-> k, alt |-> 0, volOk |-> FALSE, mv |-> 0, uv |-> 0]

\* an order-book message with two price keys that denote the same number
\* ("99" and "99.0") on the buy side
SameNumberBooks ==
    { [product |-> "EQUATOR",
       buyOrders |-> <<Level(99 * SCALE, 5, 0), Level(98 * SCALE, 2, 0), Level(99 * SCALE, 3, 0)>>,
       sellOrders |-> <<Level(102 * SCALE, 1, 0)>>] }

\* order-book messages with one level that cannot be parsed among good ones
BadBooks ==
    { [product |-> "EQUATOR",
       buyOrders |-> <<Level(98 * SCALE, 5, 0), Level(99 * SCALE, 3, 0)>>,
       sellOrders |-> <<BadKeyLevel(4, 0), Level(102 * SCALE, 1, 0)>>],
      [product |-> "EQUATOR",
       buyOrders |-> <<Level(98 * SCALE, 5, 0), BadVolumeLevel(99 * SCALE)>>,
       sellOrders |-> <<Level(103 * SCALE, 4, 0), Level(102 * SCALE, 1, 0)>>] }

\* one message with data on a stream: json.loads succeeds (kind "dict", with
\* the decoded payload) or fails (kind "text": the handler gets the raw string)
StreamMessages(s) ==
    IF s = "orderbook"
    THEN {[kind |-> "dict", payload |-> raw] : raw \in RawBooks \cup BadBooks \cup SameNumberBooks}
            \cup {[kind |-> "text"]}
    ELSE {[kind |-> "dict"], [kind |-> "text"]}

\* the body of the for loop for a message with data: decode, call the handler.
\* _on_orderbook_wrapper given a string raises in dict(raw), which it catches
SSEMessage(s, msg) ==
    /\ sse[s].pc = "stream"
    /\ IF s = "orderbook"
       THEN IF msg.kind = "dict"
            THEN OnOrderbook(msg.payload)
            ELSE /\ Alive /\ "sse" \in tasks
                 /\ lastHandled' = Handled("orderbook", "text", "raised_payload", <<>>, <<>>)
                 /\ UNCHANGED <<sse, lastPoll, mainVars, ctorVars, auxVars, simulate_mode, ledgerVars,
                                recent_mid, flight_data, lock, mmVars, simIdx, now, exchVars,
                                fills, lastSend, lastCancel, midSteps>>
       ELSE OnTrade(msg.kind)

\* ------------------------------------------------------------- main thread
\* main(), after the constructor returned: if args.simulate, set the flag
MainAfterConstruct(argSimulate) ==
    /\ mainPc = "constructed"
    /\ simulate_mode' = IF argSimulate THEN TRUE ELSE simulate_mode
    /\ mainPc' = "running"
    /\ UNCHANGED <<streamVars, ctorVars, auxVars, ledgerVars, recent_mid, flight_data, lock, mmVars,
                   simIdx, now, exchVars, fills, lastSend, lastCancel, midSteps>>

\* KeyboardInterrupt in the sleep loop
Interrupt ==
    /\ mainPc = "running"
    /\ mainPc' = "stopping"
    /\ UNCHANGED <<streamVars, ctorVars, auxVars, simulate_mode, ledgerVars, recent_mid, flight_data,
                   lock, mmVars, simIdx, now, exchVars, fills, lastSend, lastCancel, midSteps>>

\* bot.cancel_all_orders() from the main thread
MainCancelAll ==
    /\ mainPc = "stopping"
    /\ simulate_mode => lock = "none"
    /\ CancelAllOrders
    /\ mainPc' = "cancelled"
    /\ UNCHANGED <<streamVars, ctorVars, auxVars, simulate_mode, inventory, recent_mid, flight_data,
                   lock, mmVars, simIdx, now, lastSend, midSteps, fills>>

\* main returns; the daemon threads end with the process
MainExit ==
    /\ mainPc = "cancelled"
    /\ mainPc' = "exited"
    /\ UNCHANGED <<streamVars, ctorVars, auxVars, simulate_mode, ledgerVars, recent_mid, flight_data,
                   lock, mmVars, simIdx, now, exchVars, fills, lastSend, lastCancel, midSteps>>

\* ------------------------------------------------------------ specification
Next ==
    \/ \E authOk \in BOOLEAN, discoveryOk \in BOOLEAN, sse_available \in {TRUE} :
          Construct(authOk, discoveryOk, sse_available)
    \/ \E argSimulate \in BOOLEAN : MainAfterConstruct(argSimulate)
    \/ Interrupt
    \/ MainCancelAll
    \/ MainExit
    \/ MMBeginPass
    \/ MMPrepare
    \/ MMCancelAll
    \/ MMComputeLevels
    \/ MMPassRaises
    \/ MMSkipLevel
    \/ MMSend
    \/ MMFinishProduct
    \/ SimMarketUpdate
    \/ \E raw \in RawBooks : OnOrderbook(raw)

Spec == Init /\ [][Next]_vars

\* the run whose authentication fails: the constructor falls back to simulate
\* mode, so the stream threads are never started and no request is sent
MMStep ==
    \/ MMBeginPass
    \/ MMPrepare
    \/ MMCancelAll
    \/ MMComputeLevels
    \/ MMPassRaises
    \/ MMSkipLevel
    \/ MMSend
    \/ MMFinishProduct

NextSim ==
    \/ \E discoveryOk \in BOOLEAN : Construct(FALSE, discoveryOk, TRUE)
    \/ \E argSimulate \in BOOLEAN : MainAfterConstruct(argSimulate)
    \/ Interrupt
    \/ MainCancelAll
    \/ MainExit
    \/ MMBeginPass
    \/ MMPrepare
    \/ MMCancelAll
    \/ MMComputeLevels
    \/ MMPassRaises
    \/ MMSkipLevel
    \/ MMSend
    \/ MMFinishProduct
    \/ SimMarketUpdate

SpecSim == Init /\ [][NextSim]_vars

\* the strategy thread and the synthetic-market thread are daemon threads the
\* interpreter keeps scheduling
FairSim == SpecSim /\ WF_vars(MMStep) /\ WF_vars(SimMarketUpdate)

\* the strategy thread sleeps refresh_interval (3 s), or 2 s after an
\* exception, between two passes with the lock free: a thread that waits for
\* the lock (the synthetic-market thread for its append, the main thread for
\* its cancel_all_orders) acquires it during one of these sleeps
FairLock == SpecSim /\ WF_vars(MMStep) /\ SF_vars(SimMarketUpdate) /\ SF_vars(MainCancelAll)

\* the order traffic of a run whose authentication succeeds, with the product
\* list the default one and the --simulate flag set or not: orders, cancels
\* and trade events, before any order-book message has arrived
NextLive ==
    \/ \E discoveryOk \in {FALSE} : Construct(TRUE, discoveryOk, TRUE)
    \/ \E argSimulate \in BOOLEAN : MainAfterConstruct(argSimulate)
    \/ Interrupt
    \/ MainCancelAll
    \/ MainExit
    \/ MMBeginPass
    \/ MMPrepare
    \/ MMCancelAll
    \/ MMComputeLevels
    \/ MMSkipLevel
    \/ MMSend
    \/ MMFinishProduct
    \/ \E kind \in {"dict", "text"} : OnTrade(kind)

SpecLive == Init /\ [][NextLive]_vars

\* the stream threads of a run whose authentication succeeds, with the
\* --simulate flag set or not
NextStream ==
    \/ \E discoveryOk \in BOOLEAN : Construct(TRUE, discoveryOk, TRUE)
    \/ \E argSimulate \in BOOLEAN : MainAfterConstruct(argSimulate)
    \/ \E s \in Streams, ok \in BOOLEAN : SSEConnect(s, ok)
    \/ \E s \in Streams : SSERaise(s)
    \/ \E s \in Streams : SSEEnd(s)
    \/ \E s \in Streams : SSEWake(s)
    \/ \E s \in Streams : \E msg \in StreamMessages(s) : SSEMessage(s, msg)

SpecStream == Init /\ [][NextStream]_vars

\* the telemetry poller beside the two writers of the mid histories
InitPoll ==
    /\ cfg \in Configs
    /\ mainPc = "running"
    /\ \/ simulate_mode = TRUE /\ auth_token = None
          /\ tasks = {"flight", "mm", "simgen"}
          /\ sse = SseOff
       \/ simulate_mode = FALSE /\ auth_token = [none |-> FALSE, token |-> "bearer"]
          /\ tasks = {"flight", "mm", "sse", "trade"}
          /\ sse = [s \in Streams |-> [pc |-> "stream", slept |-> 0]]
    /\ products = DefaultProducts
    /\ inventory = [p \in Range(DefaultProducts) |-> 0]
    /\ open_orders_local = [p \in Range(DefaultProducts) |-> <<>>]
    /\ recent_mid = [p \in Range(DefaultProducts) |-> <<>>]
    /\ flight_data = EmptyFlightData
    /\ lock = "none"
    /\ mmPc = "wait"
    /\ mmProd = 0
    /\ mmCalc = NoCalc
    /\ mmLevels = <<>>
    /\ mmIdx = 0
    /\ mmSide = "BUY"
    /\ simIdx = 1
    /\ now = 0
    /\ remoteSeq = 0
    /\ exchange_orders = {}
    /\ lastSend = NoSend
    /\ lastCancel = NoCancel
    /\ passRested = [p \in Range(DefaultProducts) |-> 0]
    /\ midSteps = 0
    /\ fills = 0
    /\ lastHandled = NoHandled
    /\ lastPoll = NoPoll
    /\ volOut = NoVol
    /\ ltOut = NoTake
    /\ tob = NoTob

NextPoll ==
    \/ PullFlightData
    \/ SimMarketUpdate
    \/ \E raw \in RawBooks : OnOrderbook(raw)

SpecPoll == InitPoll /\ [][NextPoll]_vars

\* ---------------------------------------------------- the quote computation
\* the strategy loop alone, started in states a running simulated bot reaches:
\* any of the configurations, inventories built up by earlier fills, histories
\* with and without a volatility estimate, the clock at its last value
QuoteConfigs == Configs \cup {DefaultCfg}

\* inventories: flat, short beyond 80% of either limit, long beyond both limits
QuoteInventories == {0 - 90, 0, 120}

\* histories: none yet, two mids (one log return), or three mids around theo
\* (two log returns)
QuoteHistories(p) ==
    LET t == Theo(EmptyFlightData, p)
    IN  { <<>>, <<t + SCALE, t - SCALE>>, <<t - SCALE, t + SCALE, t - SCALE>> }

InitQuote ==
    /\ cfg \in QuoteConfigs
    /\ mainPc = "running"
    /\ simulate_mode = TRUE
    /\ auth_token = None
    /\ products = DefaultProducts
    /\ tasks = {"flight", "mm", "simgen"}
    /\ inventory \in [Range(DefaultProducts) -> QuoteInventories]
    /\ open_orders_local = [p \in Range(DefaultProducts) |-> <<>>]
    /\ recent_mid \in {h \in [Range(DefaultProducts) -> UNION {QuoteHistories(p) : p \in Range(DefaultProducts)}] :
                          \A p \in Range(DefaultProducts) : h[p] \in QuoteHistories(p)}
    /\ flight_data = EmptyFlightData
    /\ lock = "none"
    /\ mmPc = "wait"
    /\ mmProd = 0
    /\ mmCalc = NoCalc
    /\ mmLevels = <<>>
    /\ mmIdx = 0
    /\ mmSide = "BUY"
    /\ simIdx = 1
    /\ now = MaxClock
    /\ remoteSeq = 0
    /\ exchange_orders = {}
    /\ lastSend = NoSend
    /\ lastCancel = NoCancel
    /\ passRested = [p \in Range(DefaultProducts) |-> 0]
    /\ midSteps = MaxMidSteps
    /\ fills = 0
    /\ sse = SseOff
    /\ lastHandled = NoHandled
    /\ lastPoll = NoPoll
    /\ volOut = NoVol
    /\ ltOut = NoTake
    /\ tob = NoTob

NextQuote ==
    \/ MMBeginPass
    \/ MMPrepare
    \/ MMCancelAll
    \/ MMComputeLevels
    \/ MMPassRaises
    \/ MMSkipLevel
    \/ MMSend
    \/ MMFinishProduct
    \/ PullFlightData

SpecQuote == InitQuote /\ [][NextQuote]_vars

\* ------------------------------------------------------- the mid histories
\* the two writers of recent_mid, started with histories near the capacity;
\* the samples of a history are pairwise distinct so that an eviction shows
RampHistory(n) == [i \in 1..n |-> 100 * SCALE + i]

NearFull == {MidCapacity - 2, MidCapacity - 1, MidCapacity}

InitHist ==
    /\ cfg \in Configs
    /\ mainPc = "running"
    /\ \/ simulate_mode = TRUE /\ auth_token = None
          /\ tasks = {"flight", "mm", "simgen"}
       \/ simulate_mode = FALSE /\ auth_token = [none |-> FALSE, token |-> "bearer"]
          /\ tasks = {"flight", "mm", "sse", "trade"}
    /\ products = DefaultProducts
    /\ inventory = [p \in Range(DefaultProducts) |-> 0]
    /\ open_orders_local = [p \in Range(DefaultProducts) |-> <<>>]
    /\ \E n \in NearFull, m \in NearFull :
          recent_mid = [p \in Range(DefaultProducts) |->
                           IF p = "EQUATOR" THEN RampHistory(n) ELSE RampHistory(m)]
    /\ flight_data = EmptyFlightData
    /\ lock = "none"
    /\ mmPc = "wait"
    /\ mmProd = 0
    /\ mmCalc = NoCalc
    /\ mmLevels = <<>>
    /\ mmIdx = 0
    /\ mmSide = "BUY"
    /\ simIdx = 1
    /\ now = 0
    /\ remoteSeq = 0
    /\ exchange_orders = {}
    /\ lastSend = NoSend
    /\ lastCancel = NoCancel
    /\ passRested = [p \in Range(DefaultProducts) |-> 0]
    /\ midSteps = 0
    /\ fills = 0
    /\ sse = SseOff
    /\ lastHandled = NoHandled
    /\ lastPoll = NoPoll
    /\ volOut = NoVol
    /\ ltOut = NoTake
    /\ tob = NoTob

NextHist ==
    \/ SimMarketUpdate
    \/ \E raw \in RawBooks : OnOrderbook(raw)

SpecHist == InitHist /\ [][NextHist]_vars

\* ------------------------------------------- the volatility estimate alone
\* histories of at most MaxVolLen samples, some of them not positive
MaxVolLen == 3
VolSamples == {0, 100 * SCALE, 101 * SCALE}
VolHistories == UNION {[1..k -> VolSamples] : k \in 0..MaxVolLen}
VolWindows == {1, 2, VolWindow}
VolProducts == {"EQUATOR", "FLIGHTS", "CARGO"}

\* _get_vol_est(product, window): recent_mid.get(product, [])[-window:]
GetVolEst(product, window) ==
    LET hist == IF product \in DOMAIN recent_mid THEN recent_mid[product] ELSE <<>>
    IN  /\ lock = "none"
        /\ \E volT \in VolEstTicks(hist, window) :
              volOut' = [called |-> TRUE, product |-> product, window |-> window,
                         arr |-> Tail_(hist, window), result |-> volT]
        /\ UNCHANGED <<streamVars, mainVars, ctorVars, ltOut, tob, simulate_mode, ledgerVars, recent_mid,
                       flight_data, lock, mmVars, simIdx, now, exchVars, fills, lastSend,
                       lastCancel, midSteps>>

\* a constructed bot in simulate mode whose histories hold any samples
InitVol ==
    /\ cfg = DefaultCfg
    /\ mainPc = "running"
    /\ simulate_mode = TRUE /\ auth_token = None
    /\ tasks = {"flight", "mm", "simgen"}
    /\ sse = SseOff
    /\ products = DefaultProducts
    /\ inventory = [p \in Range(DefaultProducts) |-> 0]
    /\ open_orders_local = [p \in Range(DefaultProducts) |-> <<>>]
    /\ \E h \in VolHistories :
          recent_mid = [p \in Range(DefaultProducts) |->
                           IF p = "EQUATOR" THEN h ELSE <<200 * SCALE>>]
    /\ flight_data = EmptyFlightData
    /\ lock = "none"
    /\ mmPc = "wait"
    /\ mmProd = 0
    /\ mmCalc = NoCalc
    /\ mmLevels = <<>>
    /\ mmIdx = 0
    /\ mmSide = "BUY"
    /\ simIdx = 1
    /\ now = 0
    /\ remoteSeq = 0
    /\ exchange_orders = {}
    /\ lastSend = NoSend
    /\ lastCancel = NoCancel
    /\ passRested = [p \in Range(DefaultProducts) |-> 0]
    /\ midSteps = 0
    /\ fills = 0
    /\ lastHandled = NoHandled
    /\ lastPoll = NoPoll
    /\ volOut = NoVol
    /\ ltOut = NoTake
    /\ tob = NoTob

NextVol ==
    \E product \in VolProducts, window \in VolWindows : GetVolEst(product, window)

SpecVol == InitVol /\ [][NextVol]_vars

\* --------------------------------- LiquidityTakingBot (liquidity_taking_bot.py)
\* normalized levels and snapshots the hook is called with
TakeLevel(price, volume, own_volume) ==
    [price |-> price, volume |-> volume, own_volume |-> own_volume]

TakeBuySides ==
    { <<>>,
      <<TakeLevel(99 * SCALE, 8, 0), TakeLevel(98 * SCALE, 3, 0)>>,
      <<TakeLevel(99 * SCALE, 8, 2), TakeLevel(98 * SCALE, 3, 0)>>,
      <<TakeLevel(60 * SCALE, 8, 0)>>,
      <<TakeLevel(0, 8, 0)>>,
      <<TakeLevel(99 * SCALE, 0, 0)>> }

TakeSellSides ==
    { <<>>,
      <<TakeLevel(101 * SCALE, 7, 0), TakeLevel(102 * SCALE, 3, 0)>>,
      <<TakeLevel(101 * SCALE, 7, 1)>>,
      <<TakeLevel(140 * SCALE, 7, 0)>> }

TakeBooks ==
    { [product |-> "EQUATOR", buy_orders |-> b, sell_orders |-> a] :
        b \in TakeBuySides, a \in TakeSellSides }

\* self.theos[product]: a count of flights
TakeTheos == {0, 100 * SCALE}

\* abs((price - theo) / price) < random_order_percent_threshold (0.1), price # 0
WithinThreshold(price, theo) == 10 * Abs(price - theo) < Abs(price)

\* orderbook[f"{order_side.lower()}_orders"]
ChosenSide(ob, order_side) == IF order_side = "BUY" THEN ob.buy_orders ELSE ob.sell_orders

\* variant: the own volume at the best level is not looked at
TakeOutcomes_IgnoresOwnVolume(ob, order_side, theo) ==
    LET side == ChosenSide(ob, order_side)
        best == side[1]
    IN  IF Len(side) = 0 THEN {[result |-> "returned", order |-> None]}
        ELSE IF best.price = 0 THEN {[result |-> "raised", order |-> None]}
        ELSE IF ~WithinThreshold(best.price, theo) THEN {[result |-> "returned", order |-> None]}
        ELSE IF best.volume <= 0 THEN {[result |-> "raised", order |-> None]}
        ELSE {[result |-> "sent",
               order |-> [product |-> ob.product, price |-> best.price,
                          side |-> IF order_side = "SELL" THEN "BUY" ELSE "SELL",
                          volume |-> Max(r, 5)]] : r \in 0..(best.volume - 1)}

\* on_orderbook after the random draw passed: the empty-side, own-volume and
\* threshold tests in turn (a price of 0 raises ZeroDivisionError), then
\* volume = max(random.randrange(int(volume)), 5) (randrange(0) raises) and
\* send_order on the opposite side at the best price
TakeOutcomes(ob, order_side, theo) ==
    LET side == ChosenSide(ob, order_side)
        best == side[1]
    IN  IF Len(side) = 0 THEN {[result |-> "returned", order |-> None]}
        ELSE IF best.own_volume # 0 THEN {[result |-> "returned", order |-> None]}
        ELSE IF best.price = 0 THEN {[result |-> "raised", order |-> None]}
        ELSE IF ~WithinThreshold(best.price, theo) THEN {[result |-> "returned", order |-> None]}
        ELSE IF best.volume <= 0 THEN {[result |-> "raised", order |-> None]}
        ELSE {[result |-> "sent",
               order |-> [product |-> ob.product, price |-> best.price,
                          side |-> IF order_side = "SELL" THEN "BUY" ELSE "SELL",
                          volume |-> Max(r, 5)]] : r \in 0..(best.volume - 1)}

\* LiquidityTakingBot.on_orderbook: with probability random_order_chance pick
\* a side at random and try to take its best level
LTOnOrderbook(ob, drawn, order_side, theo) ==
    /\ \E out \in (IF drawn THEN TakeOutcomes(ob, order_side, theo)
                            ELSE {[result |-> "idle", order |-> None]}) :
          ltOut' = [called |-> TRUE, ob |-> ob, order_side |-> order_side, theo |-> theo,
                    result |-> out.result, order |-> out.order]
    /\ UNCHANGED <<streamVars, mainVars, ctorVars, volOut, tob, simulate_mode, ledgerVars, recent_mid,
                   flight_data, lock, mmVars, simIdx, now, exchVars, fills, lastSend,
                   lastCancel, midSteps>>

NextTake ==
    \E ob \in TakeBooks, drawn \in BOOLEAN, order_side \in {"BUY", "SELL"}, theo \in TakeTheos :
        LTOnOrderbook(ob, drawn, order_side, theo)

SpecTake == Init /\ [][NextTake]_vars

\* ------------------------------------------- TestOrderBot (test_order_bot.py)
\* `if self.order_count < 5`
TestOrderLimit == 5

\* what no step of TestOrderBot touches
TobFrame ==
    UNCHANGED <<streamVars, mainVars, ctorVars, volOut, ltOut, simulate_mode, ledgerVars,
                recent_mid, flight_data, lock, mmVars, simIdx, now, exchVars, fills, lastSend,
                lastCancel, midSteps>>

\* __post_init__, after super().__post_init__() returned: self.order_count = 0
TOBReady ==
    /\ tob.ctor = "starting"
    /\ tob' = [tob EXCEPT !.ctor = "ready", !.order_count = 0]
    /\ TobFrame

\* a stream thread calls on_orderbook and reaches `if self.order_count < 5`:
\* AttributeError while the attribute is not set (the thread's loop catches it
\* and subscribes again), otherwise the test
TOBCheck(t, hasBids) ==
    /\ tob.pc[t] = "idle"
    /\ tob' = IF tob.ctor = "starting"
              THEN [tob EXCEPT !.raised = TRUE]
              ELSE IF tob.order_count < TestOrderLimit
                   THEN [tob EXCEPT !.pc[t] = "load", !.bids[t] = hasBids, !.raised = FALSE]
                   ELSE [tob EXCEPT !.raised = FALSE]
    /\ TobFrame

\* self.order_count += 1: the read
TOBLoad(t) ==
    /\ tob.pc[t] = "load"
    /\ tob' = [tob EXCEPT !.pc[t] = "store", !.tmp[t] = tob.order_count]
    /\ TobFrame

\* self.order_count += 1: the write
TOBStore(t) ==
    /\ tob.pc[t] = "store"
    /\ tob' = [tob EXCEPT !.pc[t] = "send", !.order_count = tob.tmp[t] + 1]
    /\ TobFrame

\* send_order one below the best bid if the book has bids, then return
TOBSend(t) ==
    /\ tob.pc[t] = "send"
    /\ tob' = [tob EXCEPT !.pc[t] = "idle",
                          !.sent = IF tob.bids[t] THEN @ + 1 ELSE @]
    /\ TobFrame

NextTest ==
    \/ TOBReady
    \/ \E t \in TobThreads, hasBids \in BOOLEAN : TOBCheck(t, hasBids)
    \/ \E t \in TobThreads : TOBLoad(t)
    \/ \E t \in TobThreads : TOBStore(t)
    \/ \E t \in TobThreads : TOBSend(t)

SpecTest == Init /\ [][NextTest]_vars

\* ================================================================== claims
\* steps of the model seen from outside
SendStep      == mmPc = "submit" /\ mmSide' # mmSide
CancelAllStep == \/ mmPc = "cancel" /\ mmPc' = "levels"
                 \/ mainPc = "stopping" /\ mainPc' = "cancelled"
Ids(p)        == {open_orders_local[p][i].id : i \in 1..Len(open_orders_local[p])}
SentPrice     == IF mmSide = "BUY" THEN mmLevels[mmIdx][1] ELSE mmLevels[mmIdx][2]

\* C1: every order the strategy loop hands to send_order belongs to a level
\* pair whose rounded buy price is strictly below its rounded sell price, and
\* carries the price of its side of that pair; a locked or crossed pair is
\* never sent, whatever the inventory, the volatility, the jitter and the
\* aggressiveness flag
C1_GateStrict ==
    [][ SendStep =>
          /\ mmLevels[mmIdx][1] < mmLevels[mmIdx][2]
          /\ lastSend'.order.price = SentPrice
          /\ lastSend'.order.side = mmSide ]_vars

\* C1 witness: the submit loop went past a locked first level without sending
\* it and has sent the pair of the second level
C1_Witness ==
    /\ mmPc = "submit" /\ mmIdx = 3 /\ Len(mmLevels) = 2
    /\ mmLevels[1][1] = mmLevels[1][2]
    /\ mmLevels[2][1] < mmLevels[2][2]
    /\ lastSend.via = "sim" /\ lastSend.order.side = "SELL"
    /\ lastSend.order.price = mmLevels[2][2]
    /\ \A i \in 1..Len(open_orders_local[products[mmProd]]) :
          open_orders_local[products[mmProd]][i].price # mmLevels[1][1]

\* the scenario of C2: min_tick_width 2, base_volume 10, one level, no jitter,
\* theo 100, tick 1, flat inventory, no volatility estimate
C2_Scenario ==
    /\ cfg.min_tick_width = 2 * SCALE /\ cfg.base_volume = 10
    /\ cfg.levels = 1 /\ cfg.jitter = 0
    /\ mmPc \in {"cancel", "levels", "submit"}
    /\ mmCalc.theo = 100 * SCALE /\ mmCalc.inv = 0
    /\ TickSize(products[mmProd]) = SCALE
    /\ Len(recent_mid[products[mmProd]]) < 2

\* C2 as claimed: in the scenario the half spread is 2 (ticks and price), the
\* center 100, and the pair is BUY 98 / SELL 102
C2_ScenarioAsClaimed ==
    C2_Scenario =>
        /\ mmCalc.half_spread_price = 2 * SCALE
        /\ mmCalc.center = 100 * SCALE
        /\ mmPc = "submit" => mmLevels = << <<98 * SCALE, 102 * SCALE>> >>

\* C2 amended: in the scenario the half spread is 1 (ticks and price: the
\* width of 2 ticks is halved), the center is 100, the quantity 10, and the
\* cycle submits BUY at 99 and SELL at 101
C2_ScenarioHalved ==
    /\ [](C2_Scenario =>
             /\ mmCalc.half_spread_price = 1 * SCALE
             /\ mmCalc.center = 100 * SCALE
             /\ mmCalc.level_qty = 10
             /\ mmPc = "submit" => mmLevels = << <<99 * SCALE, 101 * SCALE>> >>)
    /\ [][ (C2_Scenario /\ SendStep) =>
              /\ lastSend'.order.volume = 10
              /\ lastSend'.order.price = IF mmSide = "BUY" THEN 99 * SCALE ELSE 101 * SCALE ]_vars

\* C2 witness: the scenario's cycle has submitted both orders, which rest at
\* 99 and 101 with volume 10
C2_Witness ==
    /\ C2_Scenario /\ mmPc = "submit" /\ mmIdx = 2
    /\ \E i, j \in 1..Len(open_orders_local[products[mmProd]]) :
          LET b == open_orders_local[products[mmProd]][i]
              a == open_orders_local[products[mmProd]][j]
          IN  /\ b.side = "BUY" /\ b.price = 99 * SCALE /\ b.volume = 10
              /\ a.side = "SELL" /\ a.price = 101 * SCALE /\ a.volume = 10

\* C3: in simulate mode, with a last mid for the product, send_order fills at
\* once exactly when the order is marketable (BUY price >= mid, SELL price <=
\* mid); after the fill the order is not in the store and the product's
\* inventory moved by exactly +volume (BUY) or -volume (SELL); an order that
\* is not marketable is in the store and the inventory is as before
C3_SimFillExact ==
    [][ (SendStep /\ simulate_mode /\ recent_mid[products[mmProd]] # <<>>) =>
        LET p   == products[mmProd]
            vol == mmCalc.level_qty
            oid == lastSend'.order.id
            gone == \A i \in 1..Len(open_orders_local'[p]) : open_orders_local'[p][i].id # oid
        IN  /\ lastSend'.via = "sim"
            /\ lastSend'.order.volume = vol /\ lastSend'.order.price = SentPrice
            /\ \A q \in ProductSet \ {p} : inventory'[q] = inventory[q]
            /\ IF \/ mmSide = "BUY" /\ SentPrice >= Last(recent_mid[p])
                  \/ mmSide = "SELL" /\ SentPrice <= Last(recent_mid[p])
               THEN /\ gone
                    /\ inventory'[p] = inventory[p] + (IF mmSide = "BUY" THEN vol ELSE 0 - vol)
               ELSE /\ ~gone
                    /\ inventory'[p] = inventory[p] ]_vars

\* C3 witness: a simulated BUY met a mid at or below its price, was filled,
\* is not in the store, and the inventory is up by its volume
C3_Witness ==
    /\ lastSend.via = "sim" /\ lastSend.filled
    /\ lastSend.order.side = "BUY"
    /\ ~lastSend.mid.none /\ lastSend.order.price >= lastSend.mid.mid
    /\ lastSend.order.id \notin Ids(lastSend.order.product)
    /\ inventory[lastSend.order.product] = lastSend.invBefore + lastSend.order.volume

\* a simulated BUY resting below the last mid of its product
RestingBuyBelowMid(p, o) ==
    /\ o.id.src = "sim" /\ o.side = "BUY"
    /\ recent_mid[p] # <<>> /\ o.price < Last(recent_mid[p])

\* C4 as claimed: a simulated BUY below the mid rests, with the inventory not
\* moved by anything but a send_order call, on every step that leaves the mid
\* above its price
C4_RestsUntilMidMoves ==
    [][ \A p \in ProductSet : \A i \in 1..Len(open_orders_local[p]) :
          LET o == open_orders_local[p][i]
          IN  (RestingBuyBelowMid(p, o) /\ Last(recent_mid'[p]) > o.price) =>
                 /\ \E j \in 1..Len(open_orders_local'[p]) : open_orders_local'[p][j] = o
                 /\ (~SendStep => inventory'[p] = inventory[p]) ]_vars

\* C4 amended: a simulated BUY below the last mid is appended OPEN with the
\* inventory unchanged; afterwards no mid-price update touches the store or
\* the inventory (the order is never filled, wherever the mid moves), and the
\* order leaves the store only by cancel_all_orders or by the fill of a later
\* order that carries the same identifier
C4_RestsUntilCancelled ==
    [][ /\ (SendStep /\ simulate_mode /\ mmSide = "BUY"
             /\ recent_mid[products[mmProd]] # <<>>
             /\ SentPrice < Last(recent_mid[products[mmProd]])) =>
               /\ open_orders_local'[products[mmProd]] =
                     Append(open_orders_local[products[mmProd]], lastSend'.order)
               /\ lastSend'.order.status = "OPEN"
               /\ inventory' = inventory
        /\ (mainPc # "new" /\ recent_mid' # recent_mid) =>
               (open_orders_local' = open_orders_local /\ inventory' = inventory)
        /\ \A p \in ProductSet : \A i \in 1..Len(open_orders_local[p]) :
              LET o == open_orders_local[p][i]
              IN  RestingBuyBelowMid(p, o) =>
                     \/ \E j \in 1..Len(open_orders_local'[p]) : open_orders_local'[p][j] = o
                     \/ CancelAllStep
                     \/ SendStep /\ lastSend'.filled /\ lastSend'.order.id = o.id ]_vars

\* C4 witness: a simulated BUY rests in the store although the last mid of
\* its product has since moved to a value at or below its price
C4_Witness ==
    \E p \in ProductSet : \E i \in 1..Len(open_orders_local[p]) :
        LET o == open_orders_local[p][i]
        IN  /\ o.id.src = "sim" /\ o.side = "BUY"
            /\ Len(recent_mid[p]) >= 2
            /\ o.price < recent_mid[p][Len(recent_mid[p]) - 1]
            /\ o.price >= Last(recent_mid[p])

\* C5 as claimed: no two entries of the store carry the same identifier
C5_UniqueIds ==
    \A p \in ProductSet, q \in ProductSet :
      \A i \in 1..Len(open_orders_local[p]), j \in 1..Len(open_orders_local[q]) :
         (p # q \/ i # j) => open_orders_local[p][i].id # open_orders_local[q][j].id

\* C6 as claimed: no order submitted during a pass is cancelled by that pass,
\* so when a pass in simulate mode has ended (and main has not cancelled),
\* the store of every product holds at least the orders the pass left
\* resting for it
C6_QuotesRestAtEndOfCycle ==
    (mmPc = "wait" /\ mainPc \in {"constructed", "running"} /\ simulate_mode) =>
        \A p \in ProductSet : Len(open_orders_local[p]) >= passRested[p]

\* C7 as claimed: once constructed, the mode matches the background tasks that
\* construction started (stream threads in Live, synthetic market in Simulated)
C7_ModeFixedAtConstruction ==
    mainPc # "new" => (simulate_mode <=> "simgen" \in tasks)

\* the run was interrupted from the keyboard
Interrupted == mainPc \in {"stopping", "cancelled", "exited"}

\* C8: when authentication fails, simulate_mode is true once the constructor
\* has returned and stays true; the strategy thread and the synthetic-market
\* thread are the ones started; every order goes through the simulated
\* gateway (no request reaches the exchange); and, unless the run is
\* interrupted from the keyboard or has used up its fills, from wherever the
\* strategy loop stands it begins a new pass later on (an exception inside a
\* pass does not end the loop)
C8_AuthFailureFallsBack ==
    /\ []((mainPc # "new" /\ auth_token = None) =>
             (simulate_mode /\ {"mm", "simgen"} \subseteq tasks /\ "sse" \notin tasks))
    /\ [][ (mainPc = "new" /\ mainPc' # "new") => auth_token' = None ]_vars
    /\ [][ SendStep => (lastSend'.via = "sim" /\ UNCHANGED exchVars) ]_vars
    /\ (mainPc \in {"constructed", "running"} /\ auth_token = None /\ mmPc # "product")
          ~> (Interrupted \/ fills = MaxFills \/ (mmPc = "product" /\ mmProd = 1))

\* C8 witness: after a failed authentication a pass has sent an order through
\* the simulated gateway, and a later pass is under way
C8_Witness ==
    /\ mainPc \in {"constructed", "running"} /\ auth_token = None /\ simulate_mode
    /\ lastSend.via = "sim"
    /\ mmPc = "product" /\ mmProd = 1

\* C9: in simulate mode a cancel_all_orders that follows another one with no
\* send_order in between removes nothing and changes neither the store nor
\* the inventory, and after a cancel_all_orders the store is empty
C9_CancelAllIdempotent ==
    /\ [](lastCancel.via = "sim" => OrderCount = 0)
    /\ [][ (CancelAllStep /\ lastCancel.via = "sim" /\ simulate_mode) =>
              /\ lastCancel'.cnt = 0
              /\ open_orders_local' = open_orders_local
              /\ inventory' = inventory ]_vars

\* C9 witness: a cancel_all_orders that removed orders was followed directly
\* by a second one, which removed none
C9_Witness ==
    /\ lastCancel.via = "sim" /\ lastCancel.cnt = 0
    /\ lastCancel.prev.via = "sim" /\ lastCancel.prev.cnt > 0
    /\ OrderCount = 0

\* C10: no history is ever longer than 200, and an append to a full history
\* removes its oldest sample and keeps the others in order, whichever of the
\* two writers appends
C10_HistoryBoundedFifo ==
    /\ [](\A p \in ProductSet : Len(recent_mid[p]) <= 200)
    /\ [][ \A p \in ProductSet :
             recent_mid'[p] # recent_mid[p] =>
                LET old == recent_mid[p]
                    new == recent_mid'[p]
                IN  IF Len(old) < 200
                    THEN Len(new) = Len(old) + 1 /\ SubSeq(new, 1, Len(old)) = old
                    ELSE Len(new) = 200 /\ SubSeq(new, 1, 199) = SubSeq(old, 2, 200) ]_vars

\* C10 witness: a full history has lost its two oldest samples and holds the
\* third one first, followed by the rest in order
C10_Witness ==
    \E p \in ProductSet :
        /\ Len(recent_mid[p]) = 200
        /\ recent_mid[p][1] = RampHistory(200)[3]
        /\ \A i \in 1..198 : recent_mid[p][i] = RampHistory(200)[i + 2]

\* the strategy thread stands at a network call of Live mode: cancel_all_orders
\* of the product, or send_order of a level that passed the gate
AtLiveNetworkCall ==
    /\ ~simulate_mode /\ mainPc \in {"constructed", "running"}
    /\ \/ mmPc = "cancel"
       \/ mmPc = "submit" /\ mmIdx <= Len(mmLevels) /\ GateOpen(mmLevels[mmIdx])

\* C11 as claimed: while the strategy thread is in a network call of Live
\* mode, the order-book handler can take its step for any message that carries
\* a mid (it does not have to wait for the call to return)
C11_HandlersNotStalled ==
    (AtLiveNetworkCall /\ "sse" \in tasks /\ midSteps < MaxMidSteps) =>
        \A raw \in RawBooks :
            (raw.buyOrders # <<>> /\ raw.product \in ProductSet) => ENABLED OnOrderbook(raw)

\* the three collections the lock protects
LedgerState == <<inventory, open_orders_local, recent_mid>>

\* C12: while the strategy thread holds the lock, the open-order store, the
\* inventory and the mid history change only by steps of the strategy thread
\* itself (every other task changes them with the lock taken, so not during a
\* pass), and the inventory the strategy thread read for a product is still the
\* product's inventory when it cancels and prices the levels: no simulated fill
\* is lost between the read and the quote
C12_LedgerUnderLock ==
    /\ []((mainPc # "new" /\ mmPc \in {"cancel", "levels"}) =>
              (lock = "mm" /\ mmCalc.inv = inventory[products[mmProd]]))
    /\ [][(mainPc # "new" /\ lock = "mm" /\ LedgerState' # LedgerState) => mmVars' # mmVars]_vars

\* a simulated fill has moved an inventory, mids have been appended by the
\* synthetic-market thread, and the strategy thread, holding the lock, has read
\* the moved inventory for its next quote
C12_Witness ==
    /\ simulate_mode /\ lock = "mm" /\ mmPc = "cancel"
    /\ fills > 0 /\ midSteps > 1
    /\ mmCalc.inv # 0 /\ mmCalc.inv = inventory[products[mmProd]]

\* a step that starts a pass at the first product
BeginsPass == mmPc' = "product" /\ mmProd' = 1 /\ <<mmPc, mmProd>> # <<"product", 1>>

\* C13: quote cycles are serialized. A pass starts only when the previous pass
\* is over (the strategy thread is in its sleep and the lock is free), a pass in
\* progress holds the lock from its first product to its last submission, and a
\* cancel of the strategy thread runs only before the first submission of its
\* own product, never while levels are being submitted
C13_CyclesSerialized ==
    /\ []((mainPc # "new" /\ mmPc # "wait") => lock = "mm")
    /\ [][BeginsPass => (mmPc = "wait" /\ lock = "none")]_vars
    /\ [][(mainPc \in {"constructed", "running"} /\ CancelAllStep) =>
              (mmPc = "cancel" /\ lock = "mm" /\ passRested[products[mmProd]] = 0)]_vars

\* a second pass has begun while orders of the previous pass are in the store
C13_Witness ==
    /\ mmPc = "product" /\ mmProd = 1 /\ lock = "mm"
    /\ OrderCount > 0

\* C14: in Live mode a send_order call of the strategy thread either returns
\* the exchange's answer, and then exactly that answer is appended to the
\* product's list of the store, or returns None, and then the store and the
\* exchange are as before; in both cases the pass goes on to its next
\* submission (no exception leaves the call)
C14_LiveSendRecordsOnlySuccess ==
    [][(~simulate_mode /\ SendStep) =>
          /\ lastSend'.via = "live"
          /\ mmPc' = "submit" /\ lock' = "mm"
          /\ IF lastSend'.order = None
             THEN /\ open_orders_local' = open_orders_local
                  /\ exchange_orders' = exchange_orders
             ELSE /\ open_orders_local' =
                        [open_orders_local EXCEPT ![products[mmProd]] = Append(@, lastSend'.order)]
                  /\ lastSend'.order.id \in exchange_orders' \ exchange_orders]_vars

\* an accepted order is in the store and the send after it was refused: the
\* store holds the accepted order only
C14_Witness ==
    /\ ~simulate_mode
    /\ lastSend.via = "live" /\ lastSend.order = None
    /\ OrderCount = 1 /\ Cardinality(exchange_orders) = 1

\* stream thread s starts a new subscription after an earlier one
Resubscribes(s) == sse[s].pc \in {"stream", "sleep"} /\ sse'[s].pc = "connect"

\* C15 as claimed: a stream thread that subscribes again has just waited the
\* fixed reconnect delay, whatever ended the previous subscription
C15_BackoffBeforeResubscribe ==
    [][\A s \in Streams :
          Resubscribes(s) => (sse[s].pc = "sleep" /\ sse[s].slept = ReconnectDelay)]_vars

\* C16 as claimed: a message that cannot be decoded is skipped, so every call
\* of a registered handler (the order-book normalizer, the trade hook) is for a
\* decoded message
C16_MalformedNotHandled ==
    lastHandled.handler # "none" => lastHandled.kind = "dict"

\* the prices of the normalized levels the order-book hook was given
DeliveredPrices ==
    {lastHandled.buy_orders[i].price : i \in 1..Len(lastHandled.buy_orders)}
        \cup {lastHandled.sell_orders[i].price : i \in 1..Len(lastHandled.sell_orders)}

\* C17 as claimed: a level that cannot be parsed is dropped alone. The call
\* for a decoded order-book message is never ended by the conversion of a
\* level, and no delivered level carries the price put in place of a key that
\* is not a number (0, the default of vi.get("price", 0))
C17_BadLevelDroppedAlone ==
    (lastHandled.handler = "orderbook" /\ lastHandled.kind = "dict") =>
        /\ lastHandled.result # "raised_transform"
        /\ 0 \notin DeliveredPrices

\* the products the fair-value mapping has a value for
TheoProducts == {"EQUATOR", "FLIGHTS"}

\* C18 as claimed: the strategy thread submits no order for a product the
\* fair-value mapping has no value for
C18_NoQuoteWithoutTheo ==
    [][SendStep => products[mmProd] \in TheoProducts]_vars

\* C19 as claimed: a poll whose fetch failed has put synthetic records in
\* place of the telemetry
C19_FailedFetchSynthesizes ==
    lastPoll.outcome = "failed" => lastPoll.synthesized

\* a step in which the trade hook was called
TradeStep == lastHandled' # lastHandled /\ lastHandled'.handler = "trade"

C21_VolZeroBelowTwoSamples ==
    (volOut.called /\ PositiveCount(volOut.arr) < 2) => volOut.result = 0

\* the estimate was asked for a window that holds two samples of which one is
\* not positive
C21_Witness ==
    /\ volOut.called
    /\ Len(volOut.arr) = 2 /\ PositiveCount(volOut.arr) = 1
    /\ volOut.result = 0

\* C22 as claimed: every call of the volatility estimate returns a defined
\* number that is not negative
C22_VolDefinedNonNegative ==
    volOut.called => (volOut.result # NaN /\ volOut.result >= 0)

\* the snapshot of the last order-book message that reached on_orderbook
Delivered == lastHandled.handler = "orderbook" /\ lastHandled.result = "delivered"

\* C23: in every snapshot handed to on_orderbook the bid levels are
\* non-increasing by price and the ask levels are non-decreasing by price
C23_SidesOrdered ==
    Delivered =>
        /\ \A i \in 1..(Len(lastHandled.buy_orders) - 1) :
              lastHandled.buy_orders[i].price >= lastHandled.buy_orders[i + 1].price
        /\ \A i \in 1..(Len(lastHandled.sell_orders) - 1) :
              lastHandled.sell_orders[i].price <= lastHandled.sell_orders[i + 1].price

\* a message whose raw maps list the bids upwards (98, 99) and the asks
\* downwards (103, 102) was delivered with both sides reordered
C23_Witness ==
    /\ Delivered
    /\ Len(lastHandled.buy_orders) = 2 /\ Len(lastHandled.sell_orders) = 2
    /\ lastHandled.buy_orders[1].price = 99 * SCALE /\ lastHandled.buy_orders[2].price = 98 * SCALE
    /\ lastHandled.sell_orders[1].price = 102 * SCALE /\ lastHandled.sell_orders[2].price = 103 * SCALE

\* C24 as claimed: in every snapshot handed to on_orderbook the bids are
\* strictly descending and the asks strictly ascending by price
C24_SidesStrictlyOrdered ==
    Delivered =>
        /\ \A i \in 1..(Len(lastHandled.buy_orders) - 1) :
              lastHandled.buy_orders[i].price > lastHandled.buy_orders[i + 1].price
        /\ \A i \in 1..(Len(lastHandled.sell_orders) - 1) :
              lastHandled.sell_orders[i].price < lastHandled.sell_orders[i + 1].price

\* the pair of level lvl as a function of the fair value, the tick, the
\* inventory, the half spread (which carries the volatility), the level and
\* the aggressiveness flag alone
QuoteOf(theo, tick, inv, half_spread_price, lvl, aggressive) ==
    LET center == PriceToTick(theo, tick) - Skew(inv, tick)
        offset == (half_spread_price * (lvl + 1)) \div 2
        adj    == IF aggressive THEN offset \div 2 ELSE 0
    IN  <<PriceToTick(center - offset + adj, tick), PriceToTick(center + offset - adj, tick)>>

\* C25: with jitter 0 the pairs a pass computes for a product are the values
\* of one function of (theo, tick, inventory, half spread, level,
\* aggressiveness), whatever random.random() returned: two passes with the
\* same inputs compute the same prices
C25_QuotesDeterministicWithoutJitter ==
    (cfg.jitter = 0 /\ mmPc = "submit") =>
        \A lvl \in 1..Len(mmLevels) :
            mmLevels[lvl] = QuoteOf(mmCalc.theo, TickSize(products[mmProd]), mmCalc.inv,
                                    mmCalc.half_spread_price, lvl, mmCalc.aggressive)

\* jitter is 0 and the levels of a product were computed for a long inventory
\* beyond the aggressive threshold
C25_Witness ==
    /\ cfg.jitter = 0 /\ mmPc = "submit"
    /\ Len(mmLevels) >= 1
    /\ mmCalc.aggressive /\ mmCalc.inv > 0

\* C26: when the liquidity-taking strategy sends an order from on_orderbook,
\* the side it chose is not empty, its own volume at the best level of that
\* side is 0, the best price is within the threshold of the fair value, the
\* order is priced at that best level, and it is a SELL when the best bid was
\* chosen and a BUY when the best ask was chosen
C26_TakesOnlyWithinGuards ==
    (ltOut.called /\ ltOut.result = "sent") =>
        LET bids == ltOut.order_side = "BUY"
            side == IF bids THEN ltOut.ob.buy_orders ELSE ltOut.ob.sell_orders
        IN  /\ side # <<>>
            /\ side[1].own_volume = 0
            /\ 10 * Abs(side[1].price - ltOut.theo) < side[1].price
            /\ ltOut.order.price = side[1].price
            /\ ltOut.order.side = (IF bids THEN "SELL" ELSE "BUY")
            /\ ltOut.order.product = ltOut.ob.product

\* a SELL was sent against a best bid of 99 with the fair value at 100, from a
\* snapshot whose best ask carries own volume
C26_Witness ==
    /\ ltOut.called /\ ltOut.result = "sent"
    /\ ltOut.order.side = "SELL" /\ ltOut.order.price = 99 * SCALE
    /\ ltOut.theo = 100 * SCALE
    /\ ltOut.ob.sell_orders # <<>> /\ ltOut.ob.sell_orders[1].own_volume # 0

\* C27: the size a pass uses for a product is base_volume while |inventory| is
\* at most inventory_limit and max(1, int(0.2 * base_volume)) beyond it, it is
\* a positive integer, and every order of the product in that pass, BUY and
\* SELL of every level, carries that size
C27_QuoteSize ==
    /\ [](mmPc \in {"cancel", "levels", "submit"} =>
             /\ mmCalc.level_qty =
                   (IF Abs(mmCalc.inv) > cfg.inventory_limit
                    THEN (IF (2 * cfg.base_volume) \div 10 >= 1
                          THEN (2 * cfg.base_volume) \div 10 ELSE 1)
                    ELSE cfg.base_volume)
             /\ mmCalc.level_qty \in Nat \ {0})
    /\ [][SendStep => lastSend'.order.volume = mmCalc.level_qty]_vars

\* the pair of a level was sent with the reduced size, for an inventory beyond
\* the limit
C27_Witness ==
    /\ mmPc = "submit" /\ mmIdx >= 2
    /\ Abs(mmCalc.inv) > cfg.inventory_limit
    /\ lastSend.via = "sim" /\ lastSend.order.side = "SELL"
    /\ lastSend.order.volume = 2 /\ cfg.base_volume = 10

\* C28 as claimed: a TestOrderBot never sends more than 5 test orders
C28_AtMostFiveTestOrders ==
    tob.sent <= TestOrderLimit

\* a step of the submit loop that goes past a level without sending it
SkipStep == mmPc = "submit" /\ mmPc' = "submit" /\ mmIdx' = mmIdx + 1 /\ mmSide = "BUY"

\* C29: every pair the level loop computes has its rounded buy price at or
\* below its rounded sell price, with or without the aggressive adjustment and
\* whatever the jitter; the pairs the submit loop skips are locked (buy = sell)
C29_NeverCrossed ==
    /\ [](mmPc = "submit" =>
             \A lvl \in 1..Len(mmLevels) : mmLevels[lvl][1] <= mmLevels[lvl][2])
    /\ [][SkipStep => mmLevels[mmIdx][1] = mmLevels[mmIdx][2]]_vars

\* with jitter on and the aggressive adjustment applied, both levels of a
\* product were computed and submitted
C29_Witness ==
    /\ mmPc = "submit" /\ cfg.jitter # 0 /\ mmCalc.aggressive
    /\ Len(mmLevels) = 2 /\ mmIdx = 3
    /\ mmLevels[1][1] < mmLevels[1][2]

\* an order that is in the store before the step is not in it after the step
LeavesStore ==
    \E p \in ProductSet : \E i \in 1..Len(open_orders_local[p]) :
        \A j \in 1..Len(open_orders_local'[p]) : open_orders_local'[p][j] # open_orders_local[p][i]

\* C30 as claimed: in simulate mode the inventory changes only in a
\* send_order step whose order is filled, a mid-price update changes neither
\* the inventory nor the store, and an order that rests in the store leaves
\* it only in a cancel step
C30_RestingLeavesOnlyByCancel ==
    [][(simulate_mode /\ mainPc # "new") =>
          /\ (inventory' # inventory) => (SendStep /\ lastSend'.filled)
          /\ (recent_mid' # recent_mid) =>
                (inventory' = inventory /\ open_orders_local' = open_orders_local)
          /\ LeavesStore => CancelAllStep]_vars

\* C31: a step taken in Live mode removes no entry from the store of open
\* orders: every product's list after the step starts with its list before
\* the step (send_order can only append), and a cancel_all_orders step leaves
\* the store as it is, also when the exchange confirmed the cancel of every
\* order it held; the number of recorded orders never decreases
C31_LiveStoreNeverShrinks ==
    [][(~simulate_mode /\ mainPc # "new") =>
          /\ \A p \in ProductSet :
                /\ p \in DOMAIN open_orders_local'
                /\ Len(open_orders_local'[p]) >= Len(open_orders_local[p])
                /\ SubSeq(open_orders_local'[p], 1, Len(open_orders_local[p])) = open_orders_local[p]
          /\ OrderCount' >= OrderCount
          /\ CancelAllStep => open_orders_local' = open_orders_local]_vars

\* Live mode: the last cancel_all_orders cancelled at least one order at the
\* exchange and left none open there, and the store still holds the order
C31_Witness ==
    /\ ~simulate_mode
    /\ lastCancel.via = "live" /\ lastCancel.cnt > 0
    /\ exchange_orders = {}
    /\ OrderCount > 0

\* a step of the strategy thread that ends a pass: its last product is done,
\* or an exception leaves the with-block
PassEnds ==
    \/ mmPc = "submit" /\ mmProd = Len(products) /\ mmPc' # "submit"
    \/ mmPc = "levels" /\ mmPc' \notin {"levels", "submit"}

\* C32: the lock is free whenever the strategy thread is between two passes;
\* the step that ends a pass, an exception inside the pass included, releases
\* the lock and puts the thread in its sleep; from the sleep the loop begins
\* a new pass (until the process exits); and a cancel_all_orders the main
\* thread is waiting to make, and the next append of the synthetic-market
\* thread, are made later on (unless the process exits or the run has used up
\* its fills)
C32_LockFreeBetweenPasses ==
    /\ []((mainPc # "new" /\ mmPc = "wait") => lock = "none")
    /\ [][(mainPc # "new" /\ PassEnds) => (lock = "mm" /\ lock' = "none" /\ mmPc' = "wait")]_vars
    /\ (mainPc # "new" /\ mmPc = "wait") ~> (mmPc = "product" \/ mainPc = "exited")
    /\ (mainPc = "stopping") ~> (mainPc = "cancelled" \/ fills = MaxFills)
    /\ \A k \in 0..(MaxMidSteps - 1) :
          (mainPc # "new" /\ midSteps = k) ~>
              (midSteps > k \/ mainPc = "exited" \/ fills = MaxFills)

\* a pass has just been aborted by the exception of a NaN half spread (the
\* first product has two mids; the cancel of the pass was followed by no
\* order): the thread is in its sleep, the lock is free, and the
\* synthetic-market thread has an append to make
C32_Witness ==
    /\ mainPc = "running" /\ simulate_mode
    /\ mmPc = "wait" /\ lock = "none"
    /\ lastCancel.via = "sim"
    /\ cfg.min_tick_width = 2 * SCALE
    /\ \A p \in ProductSet : inventory[p] = 0
    /\ Len(recent_mid[products[1]]) = 2
    /\ midSteps < MaxMidSteps
    /\ ENABLED SimMarketUpdate

\* C33 as claimed: the process exits only after the cancel_all_orders of the
\* interrupt handler has returned; once it has returned the strategy thread
\* makes no send_order call; and in simulate mode the store of open orders is
\* empty when the process has exited
C33_NoOrderAfterFinalCancel ==
    /\ [][mainPc' = "exited" => mainPc = "cancelled"]_vars
    /\ [][mainPc = "cancelled" => ~SendStep]_vars
    /\ []((mainPc = "exited" /\ simulate_mode) => OrderCount = 0)

====
